---- MODULE Spec2Model ----
(***************************************************************************)
(* Checksum-item maintenance of btrfs-progs (kernel-shared/file-item.c):   *)
(* btrfs_lookup_csum, btrfs_csum_file_block, truncate_one_csum and         *)
(* btrfs_del_csums, over a checksum tree held as one leaf of items sorted  *)
(* by key.  Item bodies are byte sequences; offsets are bytes.             *)
(***************************************************************************)
EXTENDS Integers, Naturals, Sequences, FiniteSets, TLC

VARIABLES items, slot1, pc, op, pre, ref, run

vars == <<items, slot1, pc, op, pre, ref, run>>

(***************************************************************************)
(* Bounds of the model.                                                    *)
(***************************************************************************)
\* number of sectors of the logical address range the calls are drawn from
MaxSectors == 4
\* BTRFS_LEAF_DATA_SIZE of the modelled (small) node: MAX_CSUM_ITEMS is 3
LeafDataSize == 69
\* width of the modelled u64 (all u64 arithmetic is modulo 2^WordBits)
WordBits == 16
\* how often btrfs_split_item may answer -EAGAIN within one btrfs_del_csums
MaxSplitRetry == 1
\* number of sectors at the very top of the u64 address range that calls may name
TopSectors == 2
\* largest leaf data size for which MAX_CSUM_ITEMS is evaluated
MaxLeafData == 128

(***************************************************************************)
(* Program constants.                                                      *)
(***************************************************************************)
sectorsize == 4096
csum_size == 4
ItemHeaderSize == 25
BTRFS_EXTENT_CSUM_KEY == 128
ENOENT == 2
EFBIG == 27
EAGAIN == 11
EIO == 5
ENOSPC == 28

U64 == 2 ^ WordBits
U32 == 2 ^ (WordBits \div 2)
u64(x) == x % U64
u32(x) == x % U32
U64_MAX == U64 - 1

\* (u64)-10 and (u64)-13
BTRFS_EXTENT_CSUM_OBJECTID == U64 - 10
BTRFS_CSUM_CHANGE_OBJECTID == U64 - 13

Min(a, b) == IF a < b THEN a ELSE b
Max(a, b) == IF a > b THEN a ELSE b

MAX_CSUM_ITEMS(size) == ((LeafDataSize - ItemHeaderSize * 2) \div size) - 1

\* faulty variant: one item header is left out of the account
max_csum_items_one(leaf_data_size, item_header, size) ==
    ((leaf_data_size - item_header) \div size) - 1

\* the macro MAX_CSUM_ITEMS for any leaf data size, item-header size and digest size
max_csum_items(leaf_data_size, item_header, size) ==
    ((leaf_data_size - item_header * 2) \div size) - 1

(***************************************************************************)
(* Inputs.                                                                 *)
(***************************************************************************)
Sectors == 0 .. (MaxSectors - 1)
Offsets == {s * sectorsize : s \in Sectors}
\* the calls made with the alternate checksum object-id: one sector, one digest
AltOffsets == {0}
AltDigests == {<<1, 2, 3, 4>>}
\* the last sectors below 2^64
TopOffsets == {U64 - s * sectorsize : s \in 1 .. TopSectors}
Objectids == {BTRFS_EXTENT_CSUM_OBJECTID, BTRFS_CSUM_CHANGE_OBJECTID}
\* the digest written by the calls of the runs in which collaborators fail
ErrDigests == {<<1, 2, 3, 4>>}
\* the errors other than -EAGAIN that btrfs_split_item may answer
SplitErrors == {-EIO}
\* the digest sizes of the checksum types
CsumSizes == {4, 8, 16, 32}
\* leaf geometries: the data area holds at least the two item headers
Geometries ==
    {g \in (1 .. MaxLeafData) \X (1 .. ItemHeaderSize) \X CsumSizes : g[1] >= 2 * g[2]}
\* the errors btrfs_insert_empty_item may answer
InsertErrors == {-ENOSPC}
\* the digests btrfs_csum_data may produce: csum_size bytes each
Digests == {<<1, 2, 3, 4>>, <<5, 6, 7, 8>>}
\* a byte of the leaf that the current item never wrote holds whatever was
\* there before: STALE stands for that unknown value
STALE == 238
StaleBytes == {STALE}
None == <<>>

(***************************************************************************)
(* Keys and the leaf.                                                      *)
(***************************************************************************)
Key(o, t, off) == [objectid |-> o, type |-> t, offset |-> off]
ZeroKey == Key(0, 0, 0)
Item(k, d) == [objectid |-> k.objectid, type |-> k.type, offset |-> k.offset, data |-> d]
KeyOf(it) == Key(it.objectid, it.type, it.offset)

\* btrfs_comp_cpu_keys: -1, 0, 1
btrfs_comp_cpu_keys(k1, k2) ==
    IF k1.objectid > k2.objectid THEN 1
    ELSE IF k1.objectid < k2.objectid THEN -1
    ELSE IF k1.type > k2.type THEN 1
    ELSE IF k1.type < k2.type THEN -1
    ELSE IF k1.offset > k2.offset THEN 1
    ELSE IF k1.offset < k2.offset THEN -1
    ELSE 0

nritems(its) == Len(its)
\* btrfs_item_key_to_cpu on a slot (0-based) below nritems
btrfs_item_key_to_cpu(its, slot) == KeyOf(its[slot + 1])
\* btrfs_item_size
btrfs_item_size(its, slot) == Len(its[slot + 1].data)

\* what the header area of slot 1 of the leaf holds once items moved: the key
\* last stored there
Residue(its, s1) == IF Len(its) >= 2 THEN KeyOf(its[2]) ELSE s1

\* btrfs_search_slot on the leaf: ret 0 and the slot of the key, or ret 1 and
\* the slot where the key would be inserted
btrfs_search_slot(its, key) ==
    LET below == {i \in 1 .. Len(its) : btrfs_comp_cpu_keys(KeyOf(its[i]), key) < 0}
        slot == Cardinality(below)
    IN  IF slot < Len(its) /\ btrfs_comp_cpu_keys(KeyOf(its[slot + 1]), key) = 0
        THEN [ret |-> 0, slot |-> slot]
        ELSE [ret |-> 1, slot |-> slot]

\* n bytes never written
Fill(n, b) == [i \in 1 .. n |-> b]

InsertAt(s, i, e) == SubSeq(s, 1, i) \o <<e>> \o SubSeq(s, i + 1, Len(s))
RemoveAt(s, i) == SubSeq(s, 1, i - 1) \o SubSeq(s, i + 1, Len(s))

\* btrfs_insert_empty_item: a new item of `size` bytes under `key`, body not
\* initialised (stale bytes b); the caller has checked that the key is absent
btrfs_insert_empty_item(its, key, size, b) ==
    LET s == btrfs_search_slot(its, key)
    IN  InsertAt(its, s.slot, Item(key, Fill(size, b)))

\* btrfs_extend_item: the body grows by `diff` bytes at its end
btrfs_extend_item(its, slot, diff, b) ==
    [its EXCEPT ![slot + 1].data = @ \o Fill(diff, b)]

\* btrfs_truncate_item: keep the first new_size bytes (from_end = 1) or the last
\* new_size bytes (from_end = 0)
btrfs_truncate_item(its, slot, new_size, from_end) ==
    LET d == its[slot + 1].data
    IN  [its EXCEPT ![slot + 1].data =
            IF from_end = 1 THEN SubSeq(d, 1, new_size)
            ELSE SubSeq(d, Len(d) - new_size + 1, Len(d))]

\* btrfs_set_item_key_safe
btrfs_set_item_key_safe(its, slot, key) ==
    [its EXCEPT ![slot + 1] = Item(key, @.data)]

\* btrfs_split_item: the item keeps its first split_offset bytes, a new item
\* under new_key right after it takes the rest
btrfs_split_item(its, slot, new_key, split_offset) ==
    LET d == its[slot + 1].data
        left == [its[slot + 1] EXCEPT !.data = SubSeq(d, 1, split_offset)]
        right == Item(new_key, SubSeq(d, split_offset + 1, Len(d)))
    IN  SubSeq(its, 1, slot) \o <<left, right>> \o SubSeq(its, slot + 2, Len(its))

\* btrfs_del_item
btrfs_del_item(its, slot) == RemoveAt(its, slot + 1)

\* write_extent_buffer into the body of the item at slot, at byte offset ptr
write_extent_buffer(its, slot, ptr, bytes) ==
    [its EXCEPT ![slot + 1].data =
        [i \in 1 .. Len(@) |->
            IF i > ptr /\ i <= ptr + Len(bytes) THEN bytes[i - ptr] ELSE @[i]]]

\* memset_extent_buffer(leaf, 0, item_offset + offset, len) on the item at slot
memset_extent_buffer(its, slot, offset, len) ==
    [its EXCEPT ![slot + 1].data =
        [i \in 1 .. Len(@) |-> IF i > offset /\ i <= offset + len THEN 0 ELSE @[i]]]

(***************************************************************************)
(* btrfs_lookup_csum.  The result carries ret (0, -ENOENT or -EFBIG), the  *)
(* slot path->slots[0] is left at, and csum_offset; the returned pointer   *)
(* is byte csum_offset * csum_size of the body of the item at that slot.   *)
(***************************************************************************)
LookupResult(r, s, co) == [ret |-> r, slot |-> s, csum_offset |-> co]

\* faulty variant: the bound test on csum_offset is > instead of >=
btrfs_lookup_csum_gt(its, bytenr, csum_objectid) ==
    LET file_key == Key(csum_objectid, BTRFS_EXTENT_CSUM_KEY, bytenr)
        s == btrfs_search_slot(its, file_key)
    IN  IF s.ret > 0
        THEN IF s.slot = 0
             THEN LookupResult(-ENOENT, 0, 0)
             ELSE LET slot == s.slot - 1
                      found_key == btrfs_item_key_to_cpu(its, slot)
                      csum_offset == u64(bytenr - found_key.offset) \div sectorsize
                      csums_in_item == btrfs_item_size(its, slot) \div csum_size
                  IN  IF found_key.type # BTRFS_EXTENT_CSUM_KEY
                         \/ found_key.objectid # csum_objectid
                      THEN LookupResult(-ENOENT, slot, 0)
                      ELSE IF csum_offset > csums_in_item
                      THEN LookupResult(-EFBIG, slot, csum_offset)
                      ELSE LookupResult(0, slot, csum_offset)
        ELSE LookupResult(0, s.slot, 0)

\* faulty variant: an exact key match is reported as an item that is too small
btrfs_lookup_csum_miss(its, bytenr, csum_objectid) ==
    LET file_key == Key(csum_objectid, BTRFS_EXTENT_CSUM_KEY, bytenr)
        s == btrfs_search_slot(its, file_key)
    IN  IF s.ret > 0
        THEN IF s.slot = 0
             THEN LookupResult(-ENOENT, 0, 0)
             ELSE LET slot == s.slot - 1
                      found_key == btrfs_item_key_to_cpu(its, slot)
                      csum_offset == u64(bytenr - found_key.offset) \div sectorsize
                      csums_in_item == btrfs_item_size(its, slot) \div csum_size
                  IN  IF found_key.type # BTRFS_EXTENT_CSUM_KEY
                         \/ found_key.objectid # csum_objectid
                      THEN LookupResult(-ENOENT, slot, 0)
                      ELSE IF csum_offset >= csums_in_item
                      THEN LookupResult(-EFBIG, slot, csum_offset)
                      ELSE LookupResult(0, slot, csum_offset)
        ELSE LookupResult(-EFBIG, s.slot, 0)

btrfs_lookup_csum(its, bytenr, csum_objectid) ==
    LET file_key == Key(csum_objectid, BTRFS_EXTENT_CSUM_KEY, bytenr)
        s == btrfs_search_slot(its, file_key)
    IN  IF s.ret > 0
        THEN IF s.slot = 0
             THEN LookupResult(-ENOENT, 0, 0)
             ELSE LET slot == s.slot - 1
                      found_key == btrfs_item_key_to_cpu(its, slot)
                      csum_offset == u64(bytenr - found_key.offset) \div sectorsize
                      csums_in_item == btrfs_item_size(its, slot) \div csum_size
                  IN  IF found_key.type # BTRFS_EXTENT_CSUM_KEY
                         \/ found_key.objectid # csum_objectid
                      THEN LookupResult(-ENOENT, slot, 0)
                      ELSE IF csum_offset >= csums_in_item
                      THEN LookupResult(-EFBIG, slot, csum_offset)
                      ELSE LookupResult(0, slot, csum_offset)
        ELSE LookupResult(0, s.slot, 0)

\* the csum_size bytes the pointer returned by btrfs_lookup_csum points at
CsumAt(its, lk) == SubSeq(its[lk.slot + 1].data, lk.csum_offset * csum_size + 1,
                          lk.csum_offset * csum_size + csum_size)

\* what a caller reads: the digest bytes, or None on an error pointer
ReadCsum(its, bytenr, csum_objectid) ==
    LET lk == btrfs_lookup_csum(its, bytenr, csum_objectid)
    IN  IF lk.ret = 0 THEN CsumAt(its, lk) ELSE None

(***************************************************************************)
(* btrfs_csum_file_block.  Results: the leaf's items, ret, and bug (BUG()  *)
(* reached).                                                               *)
(***************************************************************************)
CsumResult(its, r, b) == [items |-> its, ret |-> r, bug |-> b]

\* faulty variant: the item pointer advanced by csum_offset bytes, not digests
csum_found_ptr(its, slot, csum_offset, data) ==
    CsumResult(write_extent_buffer(its, slot, csum_offset, data), 0, FALSE)

\* faulty variant: one byte more than csum_size is written
csum_found_wide(its, slot, csum_offset, data) ==
    CsumResult(write_extent_buffer(its, slot, csum_offset * csum_size, data \o <<0>>),
               0, FALSE)

\* labels csum: and found: -- write csum_result at the item pointer
csum_found(its, slot, csum_offset, data) ==
    CsumResult(write_extent_buffer(its, slot, csum_offset * csum_size, data), 0, FALSE)

\* faulty variant: the size of the new item is not capped at MAX_CSUM_ITEMS
csum_ins_size_nocap(logical, found_next, next_offset) ==
    IF found_next
    THEN LET tmp0 == Min(u64(logical + sectorsize), next_offset)
             tmp1 == u64(tmp0 - logical)
             tmp2 == tmp1 \div sectorsize
             tmp3 == Max(1, tmp2)
         IN  u32(csum_size * tmp3)
    ELSE csum_size

\* faulty variant: the span is taken up to next_offset, not capped at one sector
csum_ins_size_span(logical, found_next, next_offset) ==
    IF found_next
    THEN LET tmp1 == u64(next_offset - logical)
             tmp2 == tmp1 \div sectorsize
             tmp3 == Max(1, tmp2)
             tmp4 == Min(tmp3, MAX_CSUM_ITEMS(csum_size))
         IN  u32(csum_size * tmp4)
    ELSE csum_size

\* ins_size computed at label insert:
csum_ins_size(logical, found_next, next_offset) ==
    IF found_next
    THEN LET tmp0 == Min(u64(logical + sectorsize), next_offset)
             tmp1 == u64(tmp0 - logical)
             tmp2 == tmp1 \div sectorsize
             tmp3 == Max(1, tmp2)
             tmp4 == Min(tmp3, MAX_CSUM_ITEMS(csum_size))
         IN  u32(csum_size * tmp4)
    ELSE csum_size

\* faulty variant: the answer of btrfs_insert_empty_item is looked at only after the
\* digest is written
csum_insert_late(its, file_key, found_next, next_offset, data, b, ins_ret) ==
    LET ins_size == csum_ins_size(file_key.offset, found_next, next_offset)
        ins == btrfs_insert_empty_item(its, file_key, ins_size, b)
        slot == btrfs_search_slot(ins, file_key).slot
    IN  CsumResult(csum_found(ins, slot, 0, data).items, ins_ret, FALSE)

\* label insert: a new item under file_key, the digest at its byte 0; ins_ret
\* is what btrfs_insert_empty_item answers (0, or an error with no item made)
csum_insert(its, file_key, found_next, next_offset, data, b, ins_ret) ==
    LET ins_size == csum_ins_size(file_key.offset, found_next, next_offset)
        ins == btrfs_insert_empty_item(its, file_key, ins_size, b)
        slot == btrfs_search_slot(ins, file_key).slot
    IN  IF ins_ret # 0 THEN CsumResult(its, ins_ret, FALSE)
        ELSE csum_found(ins, slot, 0, data)

\* faulty variant: after the extension the digest is written at the start of the item
csum_grow_first(its, file_key, csum_objectid, data, b, ins_ret) ==
    LET s == btrfs_search_slot(its, file_key)
    IN  IF s.ret = 0 THEN CsumResult(its, 0, TRUE)
        ELSE IF s.slot = 0 THEN csum_insert(its, file_key, FALSE, U64_MAX, data, b, ins_ret)
        ELSE LET slot == s.slot - 1
                 found_key == btrfs_item_key_to_cpu(its, slot)
                 csum_offset == u64(file_key.offset - found_key.offset) \div sectorsize
                 item_size == btrfs_item_size(its, slot)
                 diff == u32(u32((csum_offset + 1) * csum_size) - item_size)
             IN  IF found_key.objectid # csum_objectid
                    \/ found_key.type # BTRFS_EXTENT_CSUM_KEY
                    \/ csum_offset >= MAX_CSUM_ITEMS(csum_size)
                 THEN csum_insert(its, file_key, FALSE, U64_MAX, data, b, ins_ret)
                 ELSE IF csum_offset >= item_size \div csum_size
                 THEN IF diff # csum_size
                      THEN csum_insert(its, file_key, FALSE, U64_MAX, data, b, ins_ret)
                      ELSE csum_found(btrfs_extend_item(its, slot, diff, b),
                                      slot, 0, data)
                 ELSE csum_insert(its, file_key, FALSE, U64_MAX, data, b, ins_ret)

\* the search for extension: the item exists but is not big enough yet
csum_grow(its, file_key, csum_objectid, data, b, ins_ret) ==
    LET s == btrfs_search_slot(its, file_key)
    IN  IF s.ret = 0 THEN CsumResult(its, 0, TRUE)
        ELSE IF s.slot = 0 THEN csum_insert(its, file_key, FALSE, U64_MAX, data, b, ins_ret)
        ELSE LET slot == s.slot - 1
                 found_key == btrfs_item_key_to_cpu(its, slot)
                 csum_offset == u64(file_key.offset - found_key.offset) \div sectorsize
                 item_size == btrfs_item_size(its, slot)
                 diff == u32(u32((csum_offset + 1) * csum_size) - item_size)
             IN  IF found_key.objectid # csum_objectid
                    \/ found_key.type # BTRFS_EXTENT_CSUM_KEY
                    \/ csum_offset >= MAX_CSUM_ITEMS(csum_size)
                 THEN csum_insert(its, file_key, FALSE, U64_MAX, data, b, ins_ret)
                 ELSE IF csum_offset >= item_size \div csum_size
                 THEN IF diff # csum_size
                      THEN csum_insert(its, file_key, FALSE, U64_MAX, data, b, ins_ret)
                      ELSE csum_found(btrfs_extend_item(its, slot, diff, b),
                                      slot, csum_offset, data)
                 ELSE csum_insert(its, file_key, FALSE, U64_MAX, data, b, ins_ret)

\* no csum item was found: look at the item after path->slots[0] for the offset
\* of the next csum item.  With nritems = 0 the u32 nritems - 1 wraps and the
\* key is read from slot 1 of the empty leaf, which holds residue s1.
csum_next_offset(its, s1, lkslot, csum_objectid) ==
    LET slot == lkslot + 1
        found_key == IF slot < nritems(its) THEN btrfs_item_key_to_cpu(its, slot) ELSE s1
    IN  IF lkslot >= u32(nritems(its) - 1)
        THEN U64_MAX
        ELSE IF found_key.objectid # csum_objectid
                \/ found_key.type # BTRFS_EXTENT_CSUM_KEY
        THEN U64_MAX
        ELSE found_key.offset

\* faulty variant: an item that is not big enough is grown whenever the sector is its
\* next one, whatever its size
btrfs_csum_file_block_grow(its, s1, logical, csum_objectid, data, b, ins_ret) ==
    LET file_key == Key(csum_objectid, BTRFS_EXTENT_CSUM_KEY, logical)
        lk == btrfs_lookup_csum(its, logical, csum_objectid)
    IN  IF lk.ret = 0
        THEN csum_found(its, lk.slot, lk.csum_offset, data)
        ELSE IF lk.ret = -EFBIG
        THEN IF (lk.csum_offset + 1) * csum_size - btrfs_item_size(its, lk.slot) = csum_size
             THEN csum_found(btrfs_extend_item(its, lk.slot, csum_size, b),
                             lk.slot, lk.csum_offset, data)
             ELSE csum_insert(its, file_key, FALSE, U64_MAX, data, b, ins_ret)
        ELSE csum_insert(its, file_key, TRUE,
                         csum_next_offset(its, s1, lk.slot, csum_objectid), data, b, ins_ret)

btrfs_csum_file_block(its, s1, logical, csum_objectid, data, b, ins_ret) ==
    LET file_key == Key(csum_objectid, BTRFS_EXTENT_CSUM_KEY, logical)
        lk == btrfs_lookup_csum(its, logical, csum_objectid)
    IN  IF lk.ret = 0
        THEN csum_found(its, lk.slot, lk.csum_offset, data)
        ELSE IF lk.ret = -EFBIG
        THEN IF btrfs_item_size(its, lk.slot) \div csum_size >= MAX_CSUM_ITEMS(csum_size)
             THEN csum_insert(its, file_key, FALSE, U64_MAX, data, b, ins_ret)
             ELSE csum_grow(its, file_key, csum_objectid, data, b, ins_ret)
        ELSE csum_insert(its, file_key, TRUE,
                         csum_next_offset(its, s1, lk.slot, csum_objectid), data, b, ins_ret)

(***************************************************************************)
(* truncate_one_csum: the item at slot overlaps [bytenr, bytenr + len) at  *)
(* one end only.                                                           *)
(***************************************************************************)
TruncResult(its, b, w) == [items |-> its, bug |-> b, branch |-> w]

\* csum_end: the byte offset one past the last sector the item covers
item_csum_end(its, slot, key) ==
    u64((btrfs_item_size(its, slot) \div csum_size) * sectorsize + key.offset)

\* faulty variant: the end of the range taken one sector too far
del_end_byte_incl(bytenr, len) == u64(bytenr + len + sectorsize)

\* end_byte = bytenr + len
del_end_byte(bytenr, len) == u64(bytenr + len)

\* faulty variant: the item is cut at its beginning instead of its end
truncate_tail_front(its, slot, key, bytenr) ==
    LET new_size == u32(u32(u64(bytenr - key.offset) \div sectorsize) * csum_size)
    IN  btrfs_truncate_item(its, slot, new_size, 0)

\* faulty variant: the tail cut keeps the whole item
truncate_tail_keep(its, slot, key, bytenr) ==
    btrfs_truncate_item(its, slot, btrfs_item_size(its, slot), 1)

\* a simple truncate off the end of the item
truncate_tail(its, slot, key, bytenr) ==
    LET new_size == u32(u32(u64(bytenr - key.offset) \div sectorsize) * csum_size)
    IN  btrfs_truncate_item(its, slot, new_size, 1)

\* faulty variant: the new size is taken from the start of the item, not from end_byte
truncate_head_size(its, slot, key, csum_end, end_byte) ==
    LET new_size == u32(u32(u64(csum_end - key.offset) \div sectorsize) * csum_size)
        cut == btrfs_truncate_item(its, slot, new_size, 0)
    IN  btrfs_set_item_key_safe(cut, slot, Key(key.objectid, key.type, end_byte))

\* faulty variant: the item is cut at its end instead of its beginning
truncate_head_end(its, slot, key, csum_end, end_byte) ==
    LET new_size == u32(u32(u64(csum_end - end_byte) \div sectorsize) * csum_size)
        cut == btrfs_truncate_item(its, slot, new_size, 1)
    IN  btrfs_set_item_key_safe(cut, slot, Key(key.objectid, key.type, end_byte))

\* faulty variant: the key is not fixed up after the cut
truncate_head_nokey(its, slot, key, csum_end, end_byte) ==
    LET new_size == u32(u32(u64(csum_end - end_byte) \div sectorsize) * csum_size)
    IN  btrfs_truncate_item(its, slot, new_size, 0)

\* truncate from the beginning of the csum, and fix up the key
truncate_head(its, slot, key, csum_end, end_byte) ==
    LET new_size == u32(u32(u64(csum_end - end_byte) \div sectorsize) * csum_size)
        cut == btrfs_truncate_item(its, slot, new_size, 0)
    IN  btrfs_set_item_key_safe(cut, slot, Key(key.objectid, key.type, end_byte))

\* faulty variant: the head case requires key.offset > bytenr
truncate_one_csum_strict(its, slot, key, bytenr, len) ==
    LET end_byte == del_end_byte(bytenr, len)
        csum_end == item_csum_end(its, slot, key)
    IN  IF key.offset < bytenr /\ csum_end <= end_byte
        THEN TruncResult(truncate_tail(its, slot, key, bytenr), FALSE, "tail")
        ELSE IF key.offset > bytenr /\ csum_end > end_byte /\ end_byte > key.offset
        THEN TruncResult(truncate_head(its, slot, key, csum_end, end_byte), FALSE, "head")
        ELSE TruncResult(its, TRUE, "bug")

truncate_one_csum(its, slot, key, bytenr, len) ==
    LET end_byte == del_end_byte(bytenr, len)
        csum_end == item_csum_end(its, slot, key)
    IN  IF key.offset < bytenr /\ csum_end <= end_byte
        THEN TruncResult(truncate_tail(its, slot, key, bytenr), FALSE, "tail")
        ELSE IF key.offset >= bytenr /\ csum_end > end_byte /\ end_byte > key.offset
        THEN TruncResult(truncate_head(its, slot, key, csum_end, end_byte), FALSE, "head")
        ELSE TruncResult(its, TRUE, "bug")

(***************************************************************************)
(* btrfs_del_csums: one pass of its while (1) loop.  split_ret is what     *)
(* btrfs_split_item answers (0, -EAGAIN or another error).  next is "loop" *)
(* when the loop goes round again and "out" when it is left, "fault" when  *)
(* the process faults.                                                     *)
(***************************************************************************)
DelResult(its, n, w, b) == [items |-> its, next |-> n, branch |-> w, bug |-> b]

\* faulty variant: the offset is left in sectors, not scaled to bytes
del_split_offset_sectors(key, bytenr) == u64(bytenr - key.offset) \div sectorsize

\* offset: the byte of the item body where the digests of the range start
del_split_offset(key, bytenr) == (u64(bytenr - key.offset) \div sectorsize) * csum_size

\* faulty variant: one digest too many is zeroed
del_shift_len_plus(len) == (len \div sectorsize + 1) * csum_size

\* faulty variant: one digest too few is zeroed
del_shift_len_minus(len) == (len \div sectorsize - 1) * csum_size

\* shift_len: the bytes of the digests of the range
del_shift_len(len) == (len \div sectorsize) * csum_size

\* faulty variant: on -EAGAIN the loop is left instead of going round again
del_csums_split_giveup(its, slot, key, bytenr, len, split_ret) ==
    LET offset == del_split_offset(key, bytenr)
        shift_len == del_shift_len(len)
        zeroed == memset_extent_buffer(its, slot, offset, shift_len)
        new_key == Key(key.objectid, key.type, bytenr)
    IN  IF split_ret = 0
        THEN DelResult(btrfs_split_item(zeroed, slot, new_key, offset),
                       "loop", "split", FALSE)
        ELSE IF split_ret = -EAGAIN
        THEN DelResult(zeroed, "out", "again", FALSE)
        ELSE DelResult(zeroed, "out", "bug_on", TRUE)

\* the straddle branch: zero the digests of the range, split at bytenr
del_csums_split(its, slot, key, bytenr, len, split_ret) ==
    LET offset == del_split_offset(key, bytenr)
        shift_len == del_shift_len(len)
        zeroed == memset_extent_buffer(its, slot, offset, shift_len)
        new_key == Key(key.objectid, key.type, bytenr)
    IN  IF split_ret = 0
        THEN DelResult(btrfs_split_item(zeroed, slot, new_key, offset),
                       "loop", "split", FALSE)
        ELSE IF split_ret = -EAGAIN
        THEN DelResult(zeroed, "loop", "again", FALSE)
        ELSE DelResult(zeroed, "out", "bug_on", TRUE)

\* faulty variant: "this csum ends before we start" tested against end_byte
del_csums_class_end(key, csum_end, bytenr, end_byte) ==
    IF key.objectid # BTRFS_EXTENT_CSUM_OBJECTID \/ key.type # BTRFS_EXTENT_CSUM_KEY
    THEN "break"
    ELSE IF key.offset >= end_byte THEN "break"
    ELSE IF csum_end <= end_byte THEN "break"
    ELSE IF key.offset >= bytenr /\ csum_end <= end_byte THEN "whole"
    ELSE IF key.offset < bytenr /\ csum_end > end_byte THEN "split"
    ELSE "truncate"

\* faulty variant: the split test also takes an item keyed at bytenr
del_csums_class_keyed(key, csum_end, bytenr, end_byte) ==
    IF key.objectid # BTRFS_EXTENT_CSUM_OBJECTID \/ key.type # BTRFS_EXTENT_CSUM_KEY
    THEN "break"
    ELSE IF key.offset >= end_byte THEN "break"
    ELSE IF csum_end <= bytenr THEN "break"
    ELSE IF key.offset >= bytenr /\ csum_end <= end_byte THEN "whole"
    ELSE IF key.offset <= bytenr /\ csum_end > end_byte THEN "split"
    ELSE "truncate"

\* faulty variant: the object-id and type of the item found are not tested
del_csums_class_anyid(key, csum_end, bytenr, end_byte) ==
    IF key.offset >= end_byte THEN "break"
    ELSE IF csum_end <= bytenr THEN "break"
    ELSE IF key.offset >= bytenr /\ csum_end <= end_byte THEN "whole"
    ELSE IF key.offset < bytenr /\ csum_end > end_byte THEN "split"
    ELSE "truncate"

\* the tests on the item found: leave the loop, delete it whole, split it or
\* truncate it
del_csums_class(key, csum_end, bytenr, end_byte) ==
    IF key.objectid # BTRFS_EXTENT_CSUM_OBJECTID \/ key.type # BTRFS_EXTENT_CSUM_KEY
    THEN "break"
    ELSE IF key.offset >= end_byte THEN "break"
    ELSE IF csum_end <= bytenr THEN "break"
    ELSE IF key.offset >= bytenr /\ csum_end <= end_byte THEN "whole"
    ELSE IF key.offset < bytenr /\ csum_end > end_byte THEN "split"
    ELSE "truncate"

\* one pass in which btrfs_search_slot answers an error (ret < 0).  Only
\* ret > 0 is tested, so the pass goes on to read the key at path->slots[0] of
\* path->nodes[0], which the failed search has not set: the read faults, or it
\* yields whatever key and item size the memory holds and the tests run on it;
\* any further step on that path faults.
del_csums_search_failed(its, bytenr, len, fault, key, size) ==
    LET end_byte == del_end_byte(bytenr, len)
        csum_end == u64((size \div csum_size) * sectorsize + key.offset)
        class == del_csums_class(key, csum_end, bytenr, end_byte)
    IN  IF fault \/ class # "break"
        THEN DelResult(its, "fault", "eio", FALSE)
        ELSE DelResult(its, "out", "eio", FALSE)

del_csums_iter(its, bytenr, len, split_ret) ==
    LET end_byte == del_end_byte(bytenr, len)
        skey == Key(BTRFS_EXTENT_CSUM_OBJECTID, BTRFS_EXTENT_CSUM_KEY, u64(end_byte - 1))
        s == btrfs_search_slot(its, skey)
    IN  IF s.ret > 0 /\ s.slot = 0
        THEN DelResult(its, "out", "none", FALSE)
        ELSE LET slot == IF s.ret > 0 THEN s.slot - 1 ELSE s.slot
                 key == btrfs_item_key_to_cpu(its, slot)
                 csum_end == item_csum_end(its, slot, key)
                 class == del_csums_class(key, csum_end, bytenr, end_byte)
             IN  CASE class = "break" -> DelResult(its, "out", "none", FALSE)
                   [] class = "whole" ->
                        DelResult(btrfs_del_item(its, slot), "loop", "whole", FALSE)
                   [] class = "split" ->
                        del_csums_split(its, slot, key, bytenr, len, split_ret)
                   [] OTHER ->
                        LET t == truncate_one_csum(its, slot, key, bytenr, len)
                        IN  DelResult(t.items, IF t.bug THEN "out" ELSE "loop",
                                      t.branch, t.bug)

\* the whole loop of btrfs_del_csums when btrfs_split_item succeeds at once:
\* the items it leaves
RECURSIVE btrfs_del_csums(_, _, _)
btrfs_del_csums(its, bytenr, len) ==
    LET r == del_csums_iter(its, bytenr, len, 0)
    IN  IF r.next = "out" THEN r.items ELSE btrfs_del_csums(r.items, bytenr, len)

(***************************************************************************)
(* The state machine.  pc is "idle" between calls, "del" inside the loop   *)
(* of btrfs_del_csums, "ret" when a call has returned (op holds the call   *)
(* and its result, pre the items before it) and "bug" after BUG().         *)
(* ref is the reference map from (object-id, offset) to the digest last    *)
(* written and not deleted since.  run records that, since the tree was    *)
(* last empty, the calls that changed it were upserts of consecutive       *)
(* sectors in ascending order: their object-id, first offset and digests.  *)
(***************************************************************************)
Call(n, o, b, l, d) ==
    [name |-> n, objectid |-> o, bytenr |-> b, len |-> l, data |-> d,
     ret |-> 0, slot |-> 0, csum_offset |-> 0, retries |-> 0, last |-> "none",
     fail |-> 0, prev |-> "none"]

NoCall == Call("none", 0, 0, 0, None)

RefKeys == Objectids \X (Offsets \cup TopOffsets)

NoRun == [objectid |-> 0, start |-> 0, data |-> <<>>]

RunAfterUpsert(its, r, logical, csum_objectid, data) ==
    IF its = <<>>
    THEN [objectid |-> csum_objectid, start |-> logical, data |-> data]
    ELSE IF r # NoRun /\ r.objectid = csum_objectid
            /\ logical = r.start + (Len(r.data) \div csum_size) * sectorsize
            /\ Len(r.data) \div csum_size < MAX_CSUM_ITEMS(csum_size)
    THEN [r EXCEPT !.data = @ \o data]
    ELSE NoRun

Init ==
    /\ items = <<>>
    /\ slot1 = ZeroKey
    /\ pc = "idle"
    /\ op = NoCall
    /\ pre = <<>>
    /\ ref = [k \in RefKeys |-> None]
    /\ run = NoRun

\* one call of btrfs_csum_file_block; ins_ret is what btrfs_insert_empty_item
\* answers if it is called
Upsert(logical, csum_objectid, data, b, ins_ret) ==
    /\ pc = "idle"
    /\ LET r == btrfs_csum_file_block(items, slot1, logical, csum_objectid, data, b,
                                      ins_ret)
       IN  /\ items' = r.items
           /\ slot1' = Residue(r.items, slot1)
           /\ pc' = IF r.bug THEN "bug" ELSE "ret"
           /\ op' = [Call("csum", csum_objectid, logical, sectorsize, data)
                        EXCEPT !.ret = r.ret, !.fail = ins_ret]
           /\ ref' = IF r.bug \/ r.ret # 0 THEN ref
                     ELSE [ref EXCEPT ![<<csum_objectid, logical>>] = data]
           /\ run' = IF r.ret # 0 THEN run
                     ELSE RunAfterUpsert(items, run, logical, csum_objectid, data)
    /\ pre' = items

\* faulty variant: a lookup that stops at an item too small for the sector grows it
LookupGrow(bytenr, csum_objectid) ==
    /\ pc = "idle"
    /\ LET lk == btrfs_lookup_csum(items, bytenr, csum_objectid)
       IN  /\ op' = [Call("lookup", csum_objectid, bytenr, 0, None)
                        EXCEPT !.ret = lk.ret, !.slot = lk.slot,
                               !.csum_offset = lk.csum_offset]
           /\ items' = IF lk.ret = -EFBIG
                       THEN btrfs_extend_item(items, lk.slot, csum_size, STALE)
                       ELSE items
    /\ pc' = "ret"
    /\ pre' = items
    /\ UNCHANGED <<slot1, ref, run>>

\* one call of btrfs_lookup_csum (cow = 0)
Lookup(bytenr, csum_objectid) ==
    /\ pc = "idle"
    /\ LET lk == btrfs_lookup_csum(items, bytenr, csum_objectid)
       IN  op' = [Call("lookup", csum_objectid, bytenr, 0, None)
                     EXCEPT !.ret = lk.ret, !.slot = lk.slot,
                            !.csum_offset = lk.csum_offset]
    /\ pc' = "ret"
    /\ pre' = items
    /\ UNCHANGED <<items, slot1, ref, run>>

\* btrfs_del_csums is entered
DelStart(bytenr, len) ==
    /\ pc = "idle"
    /\ pc' = "del"
    /\ op' = Call("del", BTRFS_EXTENT_CSUM_OBJECTID, bytenr, len, None)
    /\ pre' = items
    /\ run' = NoRun
    /\ UNCHANGED <<items, slot1, ref>>

\* one pass of the loop of btrfs_del_csums
DelIter(split_ret) ==
    /\ pc = "del"
    /\ split_ret = -EAGAIN => op.retries < MaxSplitRetry
    /\ LET r == del_csums_iter(items, op.bytenr, op.len, split_ret)
       IN  /\ items' = r.items
           /\ slot1' = Residue(r.items, slot1)
           /\ pc' = IF r.bug THEN "bug" ELSE IF r.next = "out" THEN "ret" ELSE "del"
           /\ op' = [op EXCEPT !.last = r.branch, !.prev = op.last,
                               !.retries = IF r.branch = "again" THEN @ + 1 ELSE @,
                               !.fail = IF r.branch = "bug_on" THEN split_ret ELSE @]
           /\ ref' = IF r.next = "out" /\ ~r.bug
                     THEN [k \in RefKeys |->
                            IF k[1] = BTRFS_EXTENT_CSUM_OBJECTID
                               /\ k[2] >= op.bytenr /\ k[2] < op.bytenr + op.len
                            THEN None ELSE ref[k]]
                     ELSE ref
    /\ UNCHANGED <<pre, run>>

\* one pass of the loop of btrfs_del_csums in which the search fails with -EIO;
\* the function's only return statement after the loop is return 0
DelSearchFail(fault, key, size) ==
    /\ pc = "del"
    /\ LET r == del_csums_search_failed(items, op.bytenr, op.len, fault, key, size)
       IN  /\ pc' = IF r.next = "fault" THEN "crash" ELSE "ret"
           /\ op' = [op EXCEPT !.last = r.branch, !.fail = -EIO, !.ret = 0]
    /\ UNCHANGED <<items, slot1, pre, ref, run>>

\* the caller takes the result; the next call may start
Return ==
    /\ pc = "ret"
    /\ pc' = "idle"
    /\ op' = NoCall
    /\ pre' = <<>>
    /\ UNCHANGED <<items, slot1, ref, run>>

\* calls under the checksum object-id of the tree
UpsertCsum ==
    \E logical \in Offsets, data \in Digests, b \in StaleBytes :
        Upsert(logical, BTRFS_EXTENT_CSUM_OBJECTID, data, b, 0)

LookupCsum == \E bytenr \in Offsets : Lookup(bytenr, BTRFS_EXTENT_CSUM_OBJECTID)

\* calls under the alternate checksum object-id
UpsertAlt ==
    \E logical \in AltOffsets, data \in AltDigests, b \in StaleBytes :
        Upsert(logical, BTRFS_CSUM_CHANGE_OBJECTID, data, b, 0)

LookupAlt == \E bytenr \in Offsets : Lookup(bytenr, BTRFS_CSUM_CHANGE_OBJECTID)

DelRanges ==
    {r \in Offsets \X {n * sectorsize : n \in 1 .. MaxSectors} :
        r[1] + r[2] <= MaxSectors * sectorsize}

DelStartAny == \E r \in DelRanges : DelStart(r[1], r[2])

DelIterAny == \E split_ret \in {0, -EAGAIN} : DelIter(split_ret)

\* every call made with the checksum object-id of the tree
Next == UpsertCsum \/ LookupCsum \/ DelStartAny \/ DelIterAny \/ Return

Spec == Init /\ [][Next]_vars

\* the same, and calls made with the alternate checksum object-id
NextAlt ==
    UpsertCsum \/ LookupCsum \/ DelStartAny \/ DelIterAny \/ Return
    \/ UpsertAlt \/ LookupAlt

SpecAlt == Init /\ [][NextAlt]_vars

\* calls in which a collaborator fails: btrfs_insert_empty_item inside
\* btrfs_csum_file_block, btrfs_search_slot inside btrfs_del_csums
UpsertFail ==
    \E logical \in Offsets, data \in ErrDigests, b \in StaleBytes, e \in InsertErrors :
        Upsert(logical, BTRFS_EXTENT_CSUM_OBJECTID, data, b, e)

UpsertDone ==
    \E logical \in Offsets, data \in ErrDigests, b \in StaleBytes :
        Upsert(logical, BTRFS_EXTENT_CSUM_OBJECTID, data, b, 0)

\* what the unset path may hold: nothing readable, or a zeroed key and size
DelSearchFailAny ==
    \E fault \in BOOLEAN : DelSearchFail(fault, ZeroKey, 0)

DelIterOk == DelIter(0)

NextErr ==
    UpsertDone \/ UpsertFail \/ DelStartAny \/ DelIterOk \/ DelSearchFailAny \/ Return

SpecErr == Init /\ [][NextErr]_vars

\* calls on the last sectors below 2^64, where bytenr + len and the end of an
\* item do not fit in a u64
UpsertTop ==
    \E logical \in TopOffsets, data \in Digests, b \in StaleBytes :
        Upsert(logical, BTRFS_EXTENT_CSUM_OBJECTID, data, b, 0)

LookupTop == \E bytenr \in TopOffsets : Lookup(bytenr, BTRFS_EXTENT_CSUM_OBJECTID)

TopRanges ==
    {r \in TopOffsets \X {n * sectorsize : n \in 1 .. (TopSectors + 1)} :
        r[1] + r[2] <= U64 + sectorsize}

DelStartTop == \E r \in TopRanges : DelStart(r[1], r[2])

NextWrap == UpsertTop \/ LookupTop \/ DelStartTop \/ DelIterAny \/ Return

SpecWrap == Init /\ [][NextWrap]_vars

\* btrfs_split_item may also fail with an error other than -EAGAIN
DelIterSplitFail == \E e \in SplitErrors : DelIter(e)

NextSplit == UpsertCsum \/ DelStartAny \/ DelIterAny \/ DelIterSplitFail \/ Return

SpecSplit == Init /\ [][NextSplit]_vars

\* MAX_CSUM_ITEMS evaluated for one leaf geometry
GeomCall(g) ==
    [name |-> "max_csum_items", leaf_data_size |-> g[1], item_header |-> g[2],
     size |-> g[3], ret |-> 0]

InitGeom ==
    /\ items = <<>>
    /\ slot1 = ZeroKey
    /\ pc = "idle"
    /\ op \in {GeomCall(g) : g \in Geometries}
    /\ pre = <<>>
    /\ ref = [k \in RefKeys |-> None]
    /\ run = NoRun

MaxCsumItems ==
    /\ pc = "idle"
    /\ pc' = "ret"
    /\ op' = [op EXCEPT !.ret = max_csum_items(op.leaf_data_size, op.item_header, op.size)]
    /\ UNCHANGED <<items, slot1, pre, ref, run>>

NextGeom == MaxCsumItems

SpecGeom == InitGeom /\ [][NextGeom]_vars

\* upserts only, from the empty tree
NextUpsert == UpsertCsum \/ UpsertAlt \/ Return

SpecUpsert == Init /\ [][NextUpsert]_vars

(***************************************************************************)
(* Vocabulary of the properties.                                           *)
(***************************************************************************)
csums_in(it) == Len(it.data) \div csum_size
item_end(it) == it.offset + csums_in(it) * sectorsize
IsCsum(it, o) == it.objectid = o /\ it.type = BTRFS_EXTENT_CSUM_KEY

\* some checksum item of object-id o covers the sector at byte offset off
Covered(its, o, off) ==
    \E i \in 1 .. Len(its) :
        IsCsum(its[i], o) /\ its[i].offset <= off /\ off < item_end(its[i])

\* the offsets the properties probe: every sector an item of the model can cover
ProbeOffsets ==
    {s * sectorsize : s \in 0 .. (MaxSectors + MAX_CSUM_ITEMS(csum_size) - 1)}

InRange(off, start, len) == off >= start /\ off < start + len

Returned(name) == pc = "ret" /\ op.name = name

\* the digests of the sectors [from, to) of item it, as bytes
DigestsOf(it, from, to) ==
    SubSeq(it.data, ((from - it.offset) \div sectorsize) * csum_size + 1,
                    ((to - it.offset) \div sectorsize) * csum_size)

(***************************************************************************)
(* C1: after any sequence of btrfs_csum_file_block calls on sector-aligned *)
(* offsets from the empty tree, btrfs_lookup_csum of every sector that was *)
(* written returns the location of exactly the digest written last for it. *)
(***************************************************************************)
C1_ReadBack ==
    \A k \in RefKeys : ref[k] # None => ReadCsum(items, k[2], k[1]) = ref[k]

\* a sector is written a second time with another digest, inside an item that
\* holds more than one digest
C1_Witness ==
    /\ Returned("csum")
    /\ ReadCsum(pre, op.bytenr, op.objectid) \in Digests \ {op.data}
    /\ ReadCsum(items, op.bytenr, op.objectid) = op.data
    /\ \E i \in 1 .. Len(items) :
          /\ IsCsum(items[i], op.objectid)
          /\ items[i].offset < op.bytenr /\ op.bytenr < item_end(items[i])

(***************************************************************************)
(* C2: after every completed call, no two checksum items of one object-id  *)
(* cover a common sector: of two such items adjacent in key order the      *)
(* first ends (offset + (size / csum_size) * sectorsize) at or before the  *)
(* offset of the second.                                                   *)
(***************************************************************************)
C2_NoOverlap ==
    pc \in {"idle", "ret"} =>
        \A i \in 1 .. (Len(items) - 1) :
            (items[i].objectid = items[i + 1].objectid
             /\ items[i].type = items[i + 1].type)
                => item_end(items[i]) <= items[i + 1].offset

\* a deletion that cut an item returned and left two items that touch
C2_Witness ==
    /\ Returned("del")
    /\ items # pre
    /\ \E i \in 1 .. (Len(items) - 1) :
          /\ IsCsum(items[i], BTRFS_EXTENT_CSUM_OBJECTID)
          /\ IsCsum(items[i + 1], BTRFS_EXTENT_CSUM_OBJECTID)
          /\ item_end(items[i]) = items[i + 1].offset

(***************************************************************************)
(* C3: in every reachable state every checksum item holds at most          *)
(* MAX_CSUM_ITEMS digests, also after an in-place extension and after a    *)
(* split.                                                                  *)
(***************************************************************************)
C3_MaxItems ==
    \A i \in 1 .. Len(items) : csums_in(items[i]) <= MAX_CSUM_ITEMS(csum_size)

\* an in-place extension has just filled an item to MAX_CSUM_ITEMS digests
C3_Witness ==
    /\ Returned("csum")
    /\ Len(items) = Len(pre)
    /\ \E i \in 1 .. Len(items) :
          /\ KeyOf(items[i]) = KeyOf(pre[i])
          /\ csums_in(pre[i]) = MAX_CSUM_ITEMS(csum_size) - 1
          /\ csums_in(items[i]) = MAX_CSUM_ITEMS(csum_size)

(***************************************************************************)
(* C4: when btrfs_del_csums(bytenr, len) has returned, btrfs_lookup_csum   *)
(* of every sector inside [bytenr, bytenr + len) returns an error pointer  *)
(* and no digest location.                                                 *)
(***************************************************************************)
C4_DeleteComplete ==
    Returned("del") =>
        \A off \in ProbeOffsets :
            InRange(off, op.bytenr, op.len) =>
                btrfs_lookup_csum(items, off, BTRFS_EXTENT_CSUM_OBJECTID).ret
                    \in {-ENOENT, -EFBIG}

\* the range took the tail of one item, a whole item and the head of a third
C4_Witness ==
    /\ Returned("del")
    /\ \E i \in 1 .. (Len(pre) - 2) :
          /\ \A j \in {i, i + 1, i + 2} : IsCsum(pre[j], BTRFS_EXTENT_CSUM_OBJECTID)
          /\ pre[i].offset < op.bytenr /\ item_end(pre[i]) > op.bytenr
          /\ pre[i + 2].offset < op.bytenr + op.len
          /\ item_end(pre[i + 2]) > op.bytenr + op.len

(***************************************************************************)
(* C5: btrfs_del_csums(bytenr, len) leaves every sector outside            *)
(* [bytenr, bytenr + len) as it was: a sector that had a digest is still   *)
(* found with the same digest and a sector that had none has none.         *)
(***************************************************************************)
C5_DeleteFrame ==
    Returned("del") =>
        \A off \in ProbeOffsets, o \in Objectids :
            ~InRange(off, op.bytenr, op.len) =>
                ReadCsum(items, off, o) = ReadCsum(pre, off, o)

\* the deletion cut the middle out of an item whose outer digests remain
C5_Witness ==
    /\ Returned("del")
    /\ \E i \in 1 .. Len(pre) :
          /\ IsCsum(pre[i], BTRFS_EXTENT_CSUM_OBJECTID)
          /\ pre[i].offset < op.bytenr
          /\ item_end(pre[i]) > op.bytenr + op.len
          /\ ReadCsum(items, pre[i].offset, BTRFS_EXTENT_CSUM_OBJECTID) \in Digests
          /\ ReadCsum(items, op.bytenr + op.len, BTRFS_EXTENT_CSUM_OBJECTID) \in Digests

(***************************************************************************)
(* C6: deleting a range that lies strictly inside the coverage of one item *)
(* (item.offset < bytenr and bytenr + len < item_end) replaces that item   *)
(* by exactly two: one under the old key with the digests of               *)
(* [item.offset, bytenr) and one keyed at bytenr + len with the digests of *)
(* [bytenr + len, item_end); every other item stays as it was.             *)
(***************************************************************************)
Straddled(its, i, start, len) ==
    /\ IsCsum(its[i], BTRFS_EXTENT_CSUM_OBJECTID)
    /\ its[i].offset < start
    /\ start + len < item_end(its[i])

C6_SplitInTwo ==
    Returned("del") =>
        \A i \in 1 .. Len(pre) :
            Straddled(pre, i, op.bytenr, op.len) =>
                items = SubSeq(pre, 1, i - 1)
                        \o << Item(KeyOf(pre[i]),
                                   DigestsOf(pre[i], pre[i].offset, op.bytenr)),
                              Item(Key(pre[i].objectid, pre[i].type, op.bytenr + op.len),
                                   DigestsOf(pre[i], op.bytenr + op.len, item_end(pre[i]))) >>
                        \o SubSeq(pre, i + 1, Len(pre))

\* a range was cut out of an item that has a neighbour
C6_Witness ==
    /\ Returned("del")
    /\ Len(pre) >= 2
    /\ Len(items) = Len(pre) + 1
    /\ \E i \in 1 .. Len(pre) : Straddled(pre, i, op.bytenr, op.len)

(***************************************************************************)
(* C7: from an empty checksum tree, upserting n <= MAX_CSUM_ITEMS          *)
(* consecutive sectors in ascending order yields exactly one item, keyed   *)
(* at the first sector, whose body is the n digests in order and nothing   *)
(* else (n * csum_size bytes).                                             *)
(***************************************************************************)
C7_OneItem ==
    (Returned("csum") /\ run # NoRun) =>
        items = << Item(Key(run.objectid, BTRFS_EXTENT_CSUM_KEY, run.start), run.data) >>

(***************************************************************************)
(* C8: when btrfs_csum_file_block targets the sector right after the end   *)
(* of an item that holds MAX_CSUM_ITEMS digests, the full item is not      *)
(* extended and keeps its key, size and bytes, and the item after it is    *)
(* keyed at the target sector, so the two are adjacent; when no item was   *)
(* keyed at the target sector before the call, that item is new, its body  *)
(* is the one digest, and every item that was there is unchanged.          *)
(***************************************************************************)
FullBefore(its, i, o, off) ==
    /\ IsCsum(its[i], o)
    /\ csums_in(its[i]) = MAX_CSUM_ITEMS(csum_size)
    /\ item_end(its[i]) = off

\* pre with a new one-digest item for the call after its item i
WithNewItem(i) ==
    InsertAt(pre, i, Item(Key(op.objectid, BTRFS_EXTENT_CSUM_KEY, op.bytenr), op.data))

C8_NewItemAtMax ==
    Returned("csum") =>
        \A i \in 1 .. Len(pre) :
            FullBefore(pre, i, op.objectid, op.bytenr)
                => /\ op.ret = 0
                   /\ items[i] = pre[i]
                   /\ Len(items) > i
                   /\ KeyOf(items[i + 1]) = Key(op.objectid, BTRFS_EXTENT_CSUM_KEY, op.bytenr)
                   /\ ~Covered(pre, op.objectid, op.bytenr) => items = WithNewItem(i)

\* the sector after a full item was upserted and the tree holds the two items
C8_Witness ==
    /\ Returned("csum")
    /\ Len(items) = Len(pre) + 1
    /\ \E i \in 1 .. Len(pre) :
          /\ FullBefore(pre, i, op.objectid, op.bytenr)
          /\ items[i] = pre[i]
          /\ items[i + 1].offset = op.bytenr

\* C8 as stated: in that case a new item keyed at the target sector is always
\* inserted
C8_AlwaysInserts ==
    Returned("csum") =>
        \A i \in 1 .. Len(pre) :
            FullBefore(pre, i, op.objectid, op.bytenr) => items = WithNewItem(i)

(***************************************************************************)
(* C9: btrfs_del_csums on a range that no checksum item overlaps (empty    *)
(* tree, items all before the range or all after it) returns 0 and leaves  *)
(* the key, size and bytes of every item unchanged.                        *)
(***************************************************************************)
Overlaps(it, start, len) ==
    /\ IsCsum(it, BTRFS_EXTENT_CSUM_OBJECTID)
    /\ it.offset < start + len
    /\ item_end(it) > start

C9_NoOverlapNoChange ==
    (Returned("del") /\ \A i \in 1 .. Len(pre) : ~Overlaps(pre[i], op.bytenr, op.len))
        => (op.ret = 0 /\ items = pre)

\* the range lies in a gap: an item ends where it starts, another starts where
\* it ends
C9_Witness ==
    /\ Returned("del")
    /\ \A i \in 1 .. Len(pre) : ~Overlaps(pre[i], op.bytenr, op.len)
    /\ \E i, j \in 1 .. Len(pre) :
          /\ IsCsum(pre[i], BTRFS_EXTENT_CSUM_OBJECTID)
          /\ IsCsum(pre[j], BTRFS_EXTENT_CSUM_OBJECTID)
          /\ item_end(pre[i]) = op.bytenr
          /\ pre[j].offset = op.bytenr + op.len

(***************************************************************************)
(* C10: btrfs_lookup_csum(bytenr) returns an error pointer, never a digest *)
(* location, whenever no checksum item covers bytenr: -ENOENT when no item *)
(* has a key at or below the search key and when the nearest such item is  *)
(* of another object-id or type, -EFBIG when the nearest such item is a    *)
(* checksum item that ends at or before bytenr.                            *)
(***************************************************************************)
AtOrBelow(its, o, off) ==
    {i \in 1 .. Len(its) :
        btrfs_comp_cpu_keys(KeyOf(its[i]), Key(o, BTRFS_EXTENT_CSUM_KEY, off)) <= 0}

NearestIsCsum(its, o, off) ==
    \E i \in AtOrBelow(its, o, off) :
        /\ \A j \in AtOrBelow(its, o, off) : j <= i
        /\ IsCsum(its[i], o)

C10_NotFound ==
    (Returned("lookup") /\ ~Covered(items, op.objectid, op.bytenr)) =>
        op.ret = IF NearestIsCsum(items, op.objectid, op.bytenr) THEN -EFBIG ELSE -ENOENT

\* the lookup landed on a checksum item that ends before the sector asked for
C10_Witness ==
    /\ Returned("lookup")
    /\ ~Covered(items, op.objectid, op.bytenr)
    /\ NearestIsCsum(items, op.objectid, op.bytenr)
    /\ op.ret = -EFBIG

(***************************************************************************)
(* C11: btrfs_lookup_csum never changes the checksum tree: whatever it     *)
(* returns, a digest location or an error pointer, the items with their    *)
(* keys, sizes and bytes are the same after the call as before it.         *)
(***************************************************************************)
C11_LookupPure == Returned("lookup") => items = pre

\* a lookup stopped at an item that ends before the sector and returned -EFBIG
C11_Witness ==
    /\ Returned("lookup")
    /\ op.ret = -EFBIG
    /\ Len(items) >= 2
    /\ items = pre

(***************************************************************************)
(* C12: when btrfs_search_slot fails with an I/O error inside              *)
(* btrfs_del_csums, the call returns that error to its caller: it neither  *)
(* goes on acting on the search position nor reports success.              *)
(***************************************************************************)
C12_SearchErrorReturned ==
    (op.name = "del" /\ op.fail # 0) => (pc = "ret" /\ op.ret = op.fail)

(***************************************************************************)
(* C13: when btrfs_insert_empty_item fails inside btrfs_csum_file_block,   *)
(* the call returns the error and the items afterwards (keys, sizes,       *)
(* bytes) are those before the call: no digest written, no item extended.  *)
(***************************************************************************)
\* a checksum item of fewer than MAX_CSUM_ITEMS digests ends exactly at off
Extendable(its, o, off) ==
    \E i \in 1 .. Len(its) :
        /\ IsCsum(its[i], o)
        /\ item_end(its[i]) = off
        /\ csums_in(its[i]) < MAX_CSUM_ITEMS(csum_size)

\* the sector can neither be overwritten in place nor appended to an item
InsertNeeded(its, o, off) == ~Covered(its, o, off) /\ ~Extendable(its, o, off)

C13_InsertFailure ==
    (Returned("csum") /\ op.fail # 0 /\ InsertNeeded(pre, op.objectid, op.bytenr))
        => (op.ret = op.fail /\ items = pre)

\* the insertion of an item between two others failed
C13_Witness ==
    /\ Returned("csum")
    /\ op.fail # 0
    /\ op.ret = op.fail
    /\ InsertNeeded(pre, op.objectid, op.bytenr)
    /\ \E i, j \in 1 .. Len(pre) :
          pre[i].offset < op.bytenr /\ pre[j].offset > op.bytenr

(***************************************************************************)
(* C14: no offset of the delete and write paths is used after wrapping:    *)
(* for every u64 bytenr and len, btrfs_del_csums does not go on with an    *)
(* end_byte = bytenr + len that wrapped modulo 2^64 -- it refuses the     *)
(* call, or it deletes the sectors from bytenr up to 2^64 that it was      *)
(* asked to delete.                                                        *)
(***************************************************************************)
C14_WrappedEndRefused ==
    (Returned("del") /\ op.bytenr + op.len >= U64)
        => \/ op.ret # 0
           \/ \A off \in TopOffsets :
                 off >= op.bytenr
                    => btrfs_lookup_csum(items, off, BTRFS_EXTENT_CSUM_OBJECTID).ret # 0

(***************************************************************************)
(* C15: a new item inserted by btrfs_csum_file_block is sized for exactly  *)
(* one sector (csum_size bytes), whether or not a checksum item follows    *)
(* and however far away it starts.  The one exception: inserted into a     *)
(* leaf with no items whose slot 1 still holds a checksum key below the    *)
(* target, the item is sized for MAX_CSUM_ITEMS sectors.                   *)
(***************************************************************************)
\* the call made item i of the tree, and made nothing else
NewItemAt(i) ==
    /\ Returned("csum")
    /\ op.ret = 0
    /\ Len(items) = Len(pre) + 1
    /\ KeyOf(items[i]) = Key(op.objectid, BTRFS_EXTENT_CSUM_KEY, op.bytenr)
    /\ RemoveAt(items, i) = pre

\* a checksum item of the same object-id follows item i
Followed(i) == i < Len(items) /\ IsCsum(items[i + 1], op.objectid)

\* slot 1 of the leaf holds a checksum key below the target of the call
StaleNextBelow ==
    /\ slot1.objectid = op.objectid
    /\ slot1.type = BTRFS_EXTENT_CSUM_KEY
    /\ slot1.offset < op.bytenr

C15_OneSector ==
    \A i \in 1 .. Len(items) :
        NewItemAt(i) =>
            Len(items[i].data) =
                IF pre = <<>> /\ StaleNextBelow
                THEN MAX_CSUM_ITEMS(csum_size) * csum_size
                ELSE csum_size

\* an item was inserted two sectors or more before the checksum item after it
C15_Witness ==
    \E i \in 1 .. Len(items) :
        /\ NewItemAt(i)
        /\ Followed(i)
        /\ items[i + 1].offset >= op.bytenr + 2 * sectorsize
        /\ Len(items[i].data) = csum_size

\* C15 as stated: sized up to the following item, one sector when none follows
C15_Presized ==
    \A i \in 1 .. Len(items) :
        NewItemAt(i) =>
            csums_in(items[i]) =
                IF Followed(i)
                THEN Min(MAX_CSUM_ITEMS(csum_size),
                         (items[i + 1].offset - op.bytenr) \div sectorsize)
                ELSE 1

(***************************************************************************)
(* C16: when btrfs_csum_file_block targets the sector right after the end  *)
(* of a checksum item of fewer than MAX_CSUM_ITEMS digests and no item     *)
(* covers that sector yet, the item grows in place by exactly csum_size    *)
(* bytes holding the new digest: the number of items, the item's key and   *)
(* its earlier digests are unchanged.  When the item after it is keyed at  *)
(* that sector, the digest is overwritten there and no item grows.         *)
(***************************************************************************)
EndsBelowMax(its, i, o, off) ==
    /\ IsCsum(its[i], o)
    /\ item_end(its[i]) = off
    /\ csums_in(its[i]) < MAX_CSUM_ITEMS(csum_size)

C16_ExtendInPlace ==
    Returned("csum") =>
        \A i \in 1 .. Len(pre) :
            EndsBelowMax(pre, i, op.objectid, op.bytenr)
                => /\ op.ret = 0
                   /\ Len(items) = Len(pre)
                   /\ IF Covered(pre, op.objectid, op.bytenr)
                      THEN /\ items[i] = pre[i]
                           /\ items = write_extent_buffer(pre, i, 0, op.data)
                      ELSE items = [pre EXCEPT ![i].data = @ \o op.data]

\* an item that has a neighbour after it grew from one digest to two
C16_Witness ==
    /\ Returned("csum")
    /\ \E i \in 1 .. (Len(pre) - 1) :
          /\ EndsBelowMax(pre, i, op.objectid, op.bytenr)
          /\ ~Covered(pre, op.objectid, op.bytenr)
          /\ items[i].data = pre[i].data \o op.data

\* C16 as stated: such an item is always extended
C16_AlwaysExtends ==
    Returned("csum") =>
        \A i \in 1 .. Len(pre) :
            EndsBelowMax(pre, i, op.objectid, op.bytenr)
                => items = [pre EXCEPT ![i].data = @ \o op.data]

(***************************************************************************)
(* C17: when btrfs_csum_file_block targets a sector that an item already   *)
(* covers, it returns 0 and overwrites that sector's digest in place:      *)
(* no item is inserted, no key or size changes, every other byte keeps its *)
(* value; the same call made again leaves the tree as it is.               *)
(***************************************************************************)
CoveredBy(its, i, o, off) ==
    IsCsum(its[i], o) /\ its[i].offset <= off /\ off < item_end(its[i])

\* its with the digest of sector off of item i replaced by data
WithDigest(its, i, off, data) ==
    write_extent_buffer(its, i - 1, ((off - its[i].offset) \div sectorsize) * csum_size, data)

C17_Overwrite ==
    Returned("csum") =>
        \A i \in 1 .. Len(pre) :
            CoveredBy(pre, i, op.objectid, op.bytenr)
                => /\ op.ret = 0
                   /\ items = WithDigest(pre, i, op.bytenr, op.data)
                   /\ \A b \in StaleBytes :
                         btrfs_csum_file_block(items, slot1, op.bytenr, op.objectid,
                                               op.data, b, 0)
                            = CsumResult(items, 0, FALSE)

\* the middle digest of a full item was replaced by another one
C17_Witness ==
    /\ Returned("csum")
    /\ items # pre
    /\ \E i \in 1 .. Len(pre) :
          /\ CoveredBy(pre, i, op.objectid, op.bytenr)
          /\ pre[i].offset < op.bytenr
          /\ op.bytenr + sectorsize < item_end(pre[i])

(***************************************************************************)
(* C18: in the tail-overlap case of btrfs_del_csums (key.offset < bytenr   *)
(* and bytenr < csum_end <= end_byte) the item is cut from the back to     *)
(* (bytenr - key.offset) / sectorsize digests: its key is unchanged and    *)
(* the digests kept are its first ones, in order.                          *)
(***************************************************************************)
TailOverlap(it, start, len) ==
    /\ IsCsum(it, BTRFS_EXTENT_CSUM_OBJECTID)
    /\ it.offset < start
    /\ start < item_end(it)
    /\ item_end(it) <= start + len

C18_TailTruncate ==
    Returned("del") =>
        \A i \in 1 .. Len(pre) :
            TailOverlap(pre[i], op.bytenr, op.len)
                => /\ i <= Len(items)
                   /\ items[i] = Item(KeyOf(pre[i]),
                                      SubSeq(pre[i].data, 1,
                                             ((op.bytenr - pre[i].offset) \div sectorsize)
                                                * csum_size))

\* a full item that has a neighbour lost its last digest and kept two
C18_Witness ==
    /\ Returned("del")
    /\ Len(pre) >= 2
    /\ \E i \in 1 .. Len(pre) :
          /\ TailOverlap(pre[i], op.bytenr, op.len)
          /\ csums_in(pre[i]) = MAX_CSUM_ITEMS(csum_size)
          /\ csums_in(items[i]) = 2

(***************************************************************************)
(* C19: in the head-overlap case of btrfs_del_csums (key.offset >= bytenr, *)
(* key.offset < end_byte and csum_end > end_byte) the item is cut from the *)
(* front to (csum_end - end_byte) / sectorsize digests and its key offset  *)
(* becomes end_byte: the digests kept are its last ones, each still found  *)
(* at its sector, and the new key lies strictly between the keys of the    *)
(* items next to it.                                                       *)
(***************************************************************************)
HeadOverlap(it, start, len) ==
    /\ IsCsum(it, BTRFS_EXTENT_CSUM_OBJECTID)
    /\ it.offset >= start
    /\ it.offset < start + len
    /\ item_end(it) > start + len

\* item j of the tree is item `it` cut at its front to start at end_byte
HeadCutAt(j, it, end_byte) ==
    /\ items[j] = Item(Key(it.objectid, it.type, end_byte),
                       SubSeq(it.data,
                              Len(it.data)
                                 - ((item_end(it) - end_byte) \div sectorsize) * csum_size + 1,
                              Len(it.data)))
    /\ j > 1 => btrfs_comp_cpu_keys(KeyOf(items[j - 1]), KeyOf(items[j])) < 0
    /\ j < Len(items) => btrfs_comp_cpu_keys(KeyOf(items[j]), KeyOf(items[j + 1])) < 0

C19_HeadTruncate ==
    Returned("del") =>
        \A i \in 1 .. Len(pre) :
            HeadOverlap(pre[i], op.bytenr, op.len)
                => /\ \E j \in 1 .. Len(items) : HeadCutAt(j, pre[i], op.bytenr + op.len)
                   /\ \A off \in ProbeOffsets :
                         (off >= op.bytenr + op.len /\ off < item_end(pre[i]))
                            => ReadCsum(items, off, BTRFS_EXTENT_CSUM_OBJECTID)
                                 = ReadCsum(pre, off, BTRFS_EXTENT_CSUM_OBJECTID)

\* an item between two others lost its first digest and was re-keyed
C19_Witness ==
    /\ Returned("del")
    /\ Len(items) = Len(pre)
    /\ \E i \in 2 .. (Len(pre) - 1) :
          /\ HeadOverlap(pre[i], op.bytenr, op.len)
          /\ HeadCutAt(i, pre[i], op.bytenr + op.len)

(***************************************************************************)
(* C20: in the straddle case of btrfs_del_csums (key.offset < bytenr and   *)
(* csum_end > end_byte) the digest bytes of the range are zeroed first and *)
(* the item is then split at the byte offset of bytenr: the left item has  *)
(* the old key and the digests of [key.offset, bytenr); the right item is  *)
(* keyed at bytenr and its body is the zeroed digests of the range         *)
(* followed by the digests of [end_byte, csum_end).                        *)
(***************************************************************************)
\* the bytes of item it with the digests of [start, start + len) zeroed
ZeroedMiddle(it, start, len) ==
    DigestsOf(it, it.offset, start)
        \o Fill((len \div sectorsize) * csum_size, 0)
        \o DigestsOf(it, start + len, item_end(it))

\* pre with item i split at start, the right part being body
SplitAs(i, start, body) ==
    SubSeq(pre, 1, i - 1)
        \o << Item(KeyOf(pre[i]), DigestsOf(pre[i], pre[i].offset, start)),
              Item(Key(pre[i].objectid, pre[i].type, start), body) >>
        \o SubSeq(pre, i + 1, Len(pre))

C20_ZeroThenSplit ==
    (pc = "del" /\ op.last \in {"again", "split"}) =>
        \A i \in 1 .. Len(pre) :
            Straddled(pre, i, op.bytenr, op.len)
                => IF op.last = "again"
                   THEN items = [pre EXCEPT ![i].data =
                                    ZeroedMiddle(pre[i], op.bytenr, op.len)]
                   ELSE items = SplitAs(i, op.bytenr,
                                        Fill((op.len \div sectorsize) * csum_size, 0)
                                           \o DigestsOf(pre[i], op.bytenr + op.len,
                                                        item_end(pre[i])))

\* an item was split after a first attempt that had only zeroed the range
C20_Witness ==
    /\ pc = "del"
    /\ op.last = "split"
    /\ op.retries >= 1
    /\ Len(items) = Len(pre) + 1
    /\ \E i \in 1 .. Len(pre) : Straddled(pre, i, op.bytenr, op.len)

\* C20 as stated: the body of the right item is the digests after the range
C20_RightIsRemainder ==
    (pc = "del" /\ op.last = "split") =>
        \A i \in 1 .. Len(pre) :
            Straddled(pre, i, op.bytenr, op.len)
                => items = SplitAs(i, op.bytenr,
                                   DigestsOf(pre[i], op.bytenr + op.len, item_end(pre[i])))

(***************************************************************************)
(* C21: after the split of the straddle case the next pass of the loop of  *)
(* btrfs_del_csums finds the right item, keyed at bytenr, and takes it as  *)
(* the head-overlap case (key.offset >= bytenr and csum_end > end_byte):   *)
(* it is cut from the front and re-keyed to end_byte.                      *)
(***************************************************************************)
\* pre with the sectors [start, start + len) cut out of the middle of item i
CutOut(i, start, len) ==
    SubSeq(pre, 1, i - 1)
        \o << Item(KeyOf(pre[i]), DigestsOf(pre[i], pre[i].offset, start)),
              Item(Key(pre[i].objectid, pre[i].type, start + len),
                   DigestsOf(pre[i], start + len, item_end(pre[i]))) >>
        \o SubSeq(pre, i + 1, Len(pre))

C21_NextIsHead ==
    (op.name = "del" /\ op.prev = "split") =>
        /\ pc = "del"
        /\ op.last = "head"
        /\ \A i \in 1 .. Len(pre) :
              Straddled(pre, i, op.bytenr, op.len) => items = CutOut(i, op.bytenr, op.len)

\* the pass after a split has run on a tree of several items
C21_Witness ==
    /\ pc = "del"
    /\ op.prev = "split"
    /\ op.last = "head"
    /\ Len(pre) >= 2

\* C21 as stated: the pass after the split takes the tail-overlap case
C21_NextIsTail ==
    (op.name = "del" /\ op.prev = "split") => op.last = "tail"

(***************************************************************************)
(* C22: -EAGAIN from btrfs_split_item is not surfaced by btrfs_del_csums:  *)
(* the loop goes round again, and once the split succeeds the call returns *)
(* 0 with the tree it leaves when the split succeeds at the first attempt. *)
(* Any other non-zero answer of btrfs_split_item ends in BUG_ON, and       *)
(* nothing else does.                                                      *)
(***************************************************************************)
C22_RetryInside ==
    /\ Returned("del") =>
          (op.ret = 0 /\ items = btrfs_del_csums(pre, op.bytenr, op.len))
    /\ (op.name = "del" /\ op.last = "again") => pc = "del"
    /\ (op.name = "del" /\ op.fail # 0) => (pc = "bug" /\ op.last = "bug_on")
    /\ (op.name = "del" /\ pc = "bug") => op.fail \in SplitErrors

\* a deletion returned after a split that first answered -EAGAIN
C22_Witness ==
    /\ Returned("del")
    /\ op.retries >= 1
    /\ Len(items) = Len(pre) + 1
    /\ items = btrfs_del_csums(pre, op.bytenr, op.len)

(***************************************************************************)
(* C23: for every leaf data size L, item-header size H and digest size s   *)
(* with MAX_CSUM_ITEMS = (L - 2H) / s - 1 >= 1, an item of MAX_CSUM_ITEMS  *)
(* digests and two item headers fit in the leaf data area:                 *)
(* MAX_CSUM_ITEMS * s + 2H <= L.                                           *)
(***************************************************************************)
C23_RoomForHeader ==
    (Returned("max_csum_items") /\ op.ret >= 1)
        => op.ret * op.size + 2 * op.item_header <= op.leaf_data_size

\* a geometry with the item header of the code in which exactly one more
\* digest would fit
C23_Witness ==
    /\ Returned("max_csum_items")
    /\ op.ret >= 1
    /\ op.item_header = ItemHeaderSize
    /\ (op.ret + 1) * op.size + 2 * op.item_header = op.leaf_data_size

(***************************************************************************)
(* C24: over every sequence of btrfs_csum_file_block and btrfs_del_csums   *)
(* calls on sector-aligned arguments the tree refines the reference map    *)
(* from sector to digest: after each completed call btrfs_lookup_csum of a *)
(* sector finds the map's digest when the sector is in the map and returns *)
(* an error when it is not.                                                *)
(***************************************************************************)
RefAt(off) ==
    IF off \in Offsets THEN ref[<<BTRFS_EXTENT_CSUM_OBJECTID, off>>] ELSE None

C24_Refines ==
    pc \in {"idle", "ret"} =>
        \A off \in ProbeOffsets :
            ReadCsum(items, off, BTRFS_EXTENT_CSUM_OBJECTID) = RefAt(off)

(***************************************************************************)
(* C25: a successful btrfs_csum_file_block for sector X changes what       *)
(* btrfs_lookup_csum finds for X only: every other sector has the digest   *)
(* it had, or none as before.                                              *)
(***************************************************************************)
C25_UpsertFrame ==
    (Returned("csum") /\ op.ret = 0) =>
        \A off \in ProbeOffsets \ {op.bytenr}, o \in Objectids :
            ReadCsum(items, off, o) = ReadCsum(pre, off, o)

(***************************************************************************)
(* C26: btrfs_del_csums terminates when btrfs_split_item answers -EAGAIN   *)
(* only finitely often: every pass that does not leave the loop strictly   *)
(* lowers, in lexicographic order, the triple (sectors of the range still  *)
(* covered, items straddling the range, retries still allowed) -- it       *)
(* removes an item or shrinks its coverage inside the range, or turns the  *)
(* straddling item into a head-overlapping one, or uses up a retry.  The   *)
(* triple is of naturals, so only finitely many passes are made.           *)
(***************************************************************************)
\* the sectors of the range of the call that an item of the tree covers
RangeCover(its) ==
    Cardinality({off \in ProbeOffsets :
        InRange(off, op.bytenr, op.len) /\ Covered(its, BTRFS_EXTENT_CSUM_OBJECTID, off)})

Straddlers(its) ==
    Cardinality({i \in 1 .. Len(its) : Straddled(its, i, op.bytenr, op.len)})

DelProgress ==
    (pc = "del" /\ pc' = "del") =>
        \/ RangeCover(items') < RangeCover(items)
        \/ /\ RangeCover(items') = RangeCover(items)
           /\ Straddlers(items') < Straddlers(items)
        \/ /\ RangeCover(items') = RangeCover(items)
           /\ Straddlers(items') = Straddlers(items)
           /\ op'.retries > op.retries
           /\ op'.retries <= MaxSplitRetry

C26_Terminates == [][DelProgress]_vars

\* a deletion that needed a retry, a split and a cut has returned
C26_Witness ==
    /\ Returned("del")
    /\ op.retries >= 1
    /\ op.prev = "head"
    /\ Len(items) = Len(pre) + 1

(***************************************************************************)
(* C27: BUG() in truncate_one_csum is never reached from btrfs_del_csums:  *)
(* whenever the item the next pass finds goes to the truncate branch,      *)
(* exactly one of the tail-overlap and the head-overlap conditions         *)
(* (end_byte > key.offset included) holds for it.                          *)
(***************************************************************************)
\* the slot the search of the next pass stops at (0-based), or -1
PendingSlot ==
    LET end_byte == del_end_byte(op.bytenr, op.len)
        s == btrfs_search_slot(items, Key(BTRFS_EXTENT_CSUM_OBJECTID,
                                          BTRFS_EXTENT_CSUM_KEY, u64(end_byte - 1)))
    IN  IF s.ret > 0 THEN s.slot - 1 ELSE s.slot

PendingClass ==
    IF PendingSlot < 0 THEN "break"
    ELSE LET key == btrfs_item_key_to_cpu(items, PendingSlot)
         IN  del_csums_class(key, item_csum_end(items, PendingSlot, key),
                             op.bytenr, del_end_byte(op.bytenr, op.len))

PendingTail ==
    LET key == btrfs_item_key_to_cpu(items, PendingSlot)
    IN  /\ key.offset < op.bytenr
        /\ item_csum_end(items, PendingSlot, key) <= del_end_byte(op.bytenr, op.len)

PendingHead ==
    LET key == btrfs_item_key_to_cpu(items, PendingSlot)
        end_byte == del_end_byte(op.bytenr, op.len)
    IN  /\ key.offset >= op.bytenr
        /\ item_csum_end(items, PendingSlot, key) > end_byte
        /\ end_byte > key.offset

C27_NoTruncateBug ==
    /\ op.name = "del" => (pc # "bug" /\ op.last # "bug")
    /\ (pc = "del" /\ PendingClass = "truncate") => (PendingTail # PendingHead)

\* the head of one item was cut and the tail of the item before it comes next
C27_Witness ==
    /\ pc = "del"
    /\ op.last = "head"
    /\ PendingClass = "truncate"
    /\ PendingTail

(***************************************************************************)
(* C28: btrfs_csum_file_block never reaches the BUG() of an exact match in *)
(* the search for extension and never inserts a key that is in the tree:   *)
(* an item is inserted only when no item is keyed at the target offset and *)
(* no item covers the target sector, so the keys stay strictly ascending.  *)
(***************************************************************************)
C28_InsertOnlyWhenAbsent ==
    /\ op.name = "csum" => pc # "bug"
    /\ (Returned("csum") /\ Len(items) > Len(pre))
          => /\ ~Covered(pre, op.objectid, op.bytenr)
             /\ \A i \in 1 .. Len(pre) :
                   KeyOf(pre[i]) # Key(op.objectid, BTRFS_EXTENT_CSUM_KEY, op.bytenr)
    /\ \A i \in 1 .. (Len(items) - 1) :
          btrfs_comp_cpu_keys(KeyOf(items[i]), KeyOf(items[i + 1])) < 0

\* an item was inserted between two others
C28_Witness ==
    \E i \in 2 .. (Len(items) - 1) : NewItemAt(i)

(***************************************************************************)
(* C29: in the state of a straddle deletion after the split and before the *)
(* following cut, no digest of the deleted range can be read: the sectors  *)
(* of [bytenr, end_byte) are found with all-zero digests, the sectors from *)
(* end_byte on and those of the left item with their original digests.     *)
(***************************************************************************)
C29_ZeroedBetween ==
    (pc = "del" /\ op.last = "split") =>
        \A i \in 1 .. Len(pre) :
            Straddled(pre, i, op.bytenr, op.len) =>
                \A off \in ProbeOffsets :
                    (off >= pre[i].offset /\ off < item_end(pre[i]))
                        => ReadCsum(items, off, BTRFS_EXTENT_CSUM_OBJECTID)
                             = IF InRange(off, op.bytenr, op.len)
                               THEN Fill(csum_size, 0)
                               ELSE ReadCsum(pre, off, BTRFS_EXTENT_CSUM_OBJECTID)

\* the split has just been made and the sector at bytenr, which had a digest,
\* reads as zeros
C29_Witness ==
    /\ pc = "del"
    /\ op.last = "split"
    /\ ReadCsum(pre, op.bytenr, BTRFS_EXTENT_CSUM_OBJECTID) \in Digests
    /\ ReadCsum(items, op.bytenr, BTRFS_EXTENT_CSUM_OBJECTID) = Fill(csum_size, 0)
    /\ ReadCsum(items, op.bytenr + op.len, BTRFS_EXTENT_CSUM_OBJECTID) \in Digests

(***************************************************************************)
(* C30: btrfs_del_csums never deletes, cuts, splits or re-keys an item     *)
(* whose object-id or type is not BTRFS_EXTENT_CSUM_OBJECTID /             *)
(* BTRFS_EXTENT_CSUM_KEY: in every state of a call such an item and the    *)
(* items before it are as they were when the call started, also for items  *)
(* written by btrfs_csum_file_block under another checksum object-id.      *)
(***************************************************************************)
C30_ForeignUntouched ==
    op.name = "del" =>
        \A i \in 1 .. Len(pre) :
            ~IsCsum(pre[i], BTRFS_EXTENT_CSUM_OBJECTID)
                => /\ i <= Len(items)
                   /\ \A j \in 1 .. i : items[j] = pre[j]

\* a deletion over the sector of an item of the other object-id removed the
\* checksum item of that sector and returned
C30_Witness ==
    /\ Returned("del")
    /\ Len(items) < Len(pre)
    /\ \E i \in 1 .. Len(pre) :
          /\ IsCsum(pre[i], BTRFS_CSUM_CHANGE_OBJECTID)
          /\ InRange(pre[i].offset, op.bytenr, op.len)
          /\ items[i] = pre[i]

====
